---- MODULE Spec2Model ----
(***************************************************************************)
(* Model of find-up-simple (src/src/index.ts): findUp (asynchronous) and   *)
(* findUpSync (synchronous) walk from a start directory towards the root   *)
(* and stat a candidate path at every directory they visit.                *)
(*                                                                         *)
(* Representation.  A POSIX path string is a record [kind, abs, segs]:     *)
(* kind "path" is a string, kind "url" a file URL object, kind "undefined" *)
(* the JavaScript value undefined.  segs is the sequence of segments       *)
(* between the separators, possibly "." and ".." (not yet normalised);     *)
(* abs says whether the string starts with "/".  A resolved directory is   *)
(* the sequence of its normalised segments, so <<>> is "/".                *)
(***************************************************************************)
EXTENDS Integers, Sequences, FiniteSets, TLC

VARIABLES
    name, cwd, type, stopAt,      \* the arguments of the two calls
    processCwd, fs,               \* ambient state: process.cwd() and the file system
    pc, directory, root, resolvedStopAt, filePath, result, probes,  \* findUp
    syncPc, syncResult, syncProbes                                  \* findUpSync

inputs == <<name, cwd, type, stopAt, processCwd, fs>>
asyncVars == <<pc, directory, root, resolvedStopAt, filePath, result, probes>>
syncVars == <<syncPc, syncResult, syncProbes>>
vars == <<name, cwd, type, stopAt, processCwd, fs,
          pc, directory, root, resolvedStopAt, filePath, result, probes,
          syncPc, syncResult, syncProbes>>

----------------------------------------------------------------------------
(* Bounds *)
MaxDepth == 3      \* deepest start directory
MaxStop == 2       \* deepest absolute stopAt directory on the chain

DeepPath == <<"a", "b", "c", "d", "e">>
OffChain == <<"b">>

----------------------------------------------------------------------------
(* Values *)
Undefined == [kind |-> "undefined", abs |-> FALSE, segs |-> <<>>]
PathStr(a, s) == [kind |-> "path", abs |-> a, segs |-> s]
FileURL(s) == [kind |-> "url", abs |-> TRUE, segs |-> s]
Thrown == [kind |-> "threw", abs |-> FALSE, segs |-> <<>>]

Kinds == {"file", "directory", "missing", "error"}

----------------------------------------------------------------------------
(* node:path, POSIX flavour *)

RECURSIVE NormalizeOnto(_, _)
NormalizeOnto(stack, segs) ==
    IF segs = <<>> THEN stack
    ELSE LET s == Head(segs) IN
         IF s = "." THEN NormalizeOnto(stack, Tail(segs))
         ELSE IF s = ".." THEN
              NormalizeOnto(IF stack = <<>> THEN <<>>
                            ELSE SubSeq(stack, 1, Len(stack) - 1), Tail(segs))
         ELSE NormalizeOnto(Append(stack, s), Tail(segs))

\* path.resolve(base, p) for an absolute directory base
Resolve(base, p) ==
    IF p.abs THEN NormalizeOnto(<<>>, p.segs) ELSE NormalizeOnto(base, p.segs)

\* path.parse(directory).root
ParseRoot(dir) == <<>>

\* a dirname that climbs two levels at once
DirnameSkip(dir) == IF Len(dir) <= 2 THEN <<>> ELSE SubSeq(dir, 1, Len(dir) - 2)

\* path.dirname of a resolved directory; dirname("/") is "/"
Dirname(dir) == IF dir = <<>> THEN <<>> ELSE SubSeq(dir, 1, Len(dir) - 1)

\* path.join(directory, name) for a resolved directory
Join(dir, p) == PathStr(TRUE, NormalizeOnto(dir, p.segs))

IsAbsolute(p) == p.abs

\* a resolved directory as a path string
DirStr(dir) == PathStr(TRUE, dir)

\* truthiness of a path string: it is not the empty string
Truthy(p) == p.abs \/ p.segs # <<>>

----------------------------------------------------------------------------
(* index.ts helpers *)

toPath(urlOrPath) ==
    IF urlOrPath.kind = "url" THEN PathStr(TRUE, urlOrPath.segs) ELSE urlOrPath

\* const { cwd = process.cwd(), type = 'file', stopAt } = options ?? {}
CwdOrDefault(c, pcwd) == IF c.kind = "undefined" THEN DirStr(pcwd) ELSE c
TypeOrDefault(t) == IF t = "undefined" THEN "file" ELSE t

\* let directory = path.resolve(toPath(cwd) ?? '')
StartDirectory(c, pcwd) == Resolve(pcwd, toPath(CwdOrDefault(c, pcwd)))

\* path.resolve(directory, toPath(stopAt ?? root))
ResolvedStopAt(dir, s, r) ==
    Resolve(dir, toPath(IF s.kind = "undefined" THEN DirStr(r) ELSE s))

\* path.isAbsolute(name) ? name : path.join(directory, name)
FilePath(dir, n) == IF IsAbsolute(n) THEN n ELSE Join(dir, n)

----------------------------------------------------------------------------
(* The file system *)

\* the entry a path string names, as stat sees it
FsKey(p) == Resolve(processCwd, p)
KindAt(p) == IF FsKey(p) \in DOMAIN fs THEN fs[FsKey(p)] ELSE "missing"

\* fsPromises.stat(filePath): rejects when the entry is missing or on any error
StatAsync(p) ==
    LET k == KindAt(p) IN
    IF k \in {"missing", "error"} THEN [threw |-> TRUE, stats |-> "undefined"]
    ELSE [threw |-> FALSE, stats |-> k]

\* fs.statSync(filePath, { throwIfNoEntry: false }): undefined when missing
StatSync(p) ==
    LET k == KindAt(p) IN
    IF k = "error" THEN [threw |-> TRUE, stats |-> "undefined"]
    ELSE IF k = "missing" THEN [threw |-> FALSE, stats |-> "undefined"]
    ELSE [threw |-> FALSE, stats |-> k]

isFile(stats) == stats = "file"
isDirectory(stats) == stats = "directory"

----------------------------------------------------------------------------
(* findUp, lines 58-87 *)

\* a loop condition that forgets the stop directory
FindUpCondNoStop(dir, stop, r) ==
    Truthy(DirStr(dir)) /\ dir # r

\* a loop condition that forgets the root
FindUpCondNoRoot(dir, stop, r) ==
    Truthy(DirStr(dir)) /\ dir # stop

\* while (directory && directory !== resolvedStopAt && directory !== root)
FindUpCond(dir, stop, r) ==
    Truthy(DirStr(dir)) /\ dir # stop /\ dir # r

\* a try body that accepts an entry of either kind
FindUpTryAnyKind(resp, t) ==
    IF resp.threw THEN "continue"
    ELSE IF isFile(resp.stats) \/ isDirectory(resp.stats) THEN "return"
    ELSE "continue"

\* a try body without the catch
FindUpTryRethrow(resp, t) ==
    IF resp.threw THEN "throw"
    ELSE IF (t = "file" /\ isFile(resp.stats))
            \/ (t = "directory" /\ isDirectory(resp.stats)) THEN "return"
    ELSE "continue"

\* the try/catch around the awaited stat: "return", "continue" or "throw"
FindUpTry(resp, t) ==
    IF resp.threw THEN "continue"
    ELSE IF (t = "file" /\ isFile(resp.stats))
            \/ (t = "directory" /\ isDirectory(resp.stats)) THEN "return"
    ELSE "continue"

\* lines 62-66: the call up to the first evaluation of the loop condition
FindUpCall ==
    /\ pc = "idle"
    /\ directory' = StartDirectory(cwd, processCwd)
    /\ root' = ParseRoot(directory')
    /\ resolvedStopAt' = ResolvedStopAt(directory', stopAt, root')
    /\ pc' = "loop"
    /\ UNCHANGED <<filePath, result, probes>>
    /\ UNCHANGED inputs /\ UNCHANGED syncVars

\* lines 68-85: one iteration; the candidate is computed, stat is awaited,
\* and the call returns the candidate or goes on to the parent
FindUpIterate ==
    /\ pc = "loop"
    /\ FindUpCond(directory, resolvedStopAt, root)
    /\ filePath' = FilePath(directory, name)
    /\ probes' = Append(probes, directory)
    /\ LET o == FindUpTry(StatAsync(filePath'), TypeOrDefault(type)) IN
       \/ /\ o = "return"
          /\ result' = filePath'
          /\ pc' = "done"
          /\ UNCHANGED directory
       \/ /\ o = "throw"
          /\ result' = Thrown
          /\ pc' = "done"
          /\ UNCHANGED directory
       \/ /\ o = "continue"
          /\ directory' = Dirname(directory)
          /\ pc' = "loop"
          /\ UNCHANGED result
    /\ UNCHANGED <<root, resolvedStopAt>>
    /\ UNCHANGED inputs /\ UNCHANGED syncVars

\* lines 68, 87: the loop condition fails and the function ends without a value
FindUpExit ==
    /\ pc = "loop"
    /\ ~FindUpCond(directory, resolvedStopAt, root)
    /\ result' = Undefined
    /\ pc' = "done"
    /\ UNCHANGED <<directory, root, resolvedStopAt, filePath, probes>>
    /\ UNCHANGED inputs /\ UNCHANGED syncVars

----------------------------------------------------------------------------
(* findUpSync, lines 105-134 *)

\* a synchronous loop condition that forgets the stop directory
FindUpSyncCondNoStop(dir, stop, r) ==
    Truthy(DirStr(dir)) /\ dir # r

\* while (directory && directory !== resolvedStopAt && directory !== root)
FindUpSyncCond(dir, stop, r) ==
    Truthy(DirStr(dir)) /\ dir # stop /\ dir # r

\* a synchronous try body that accepts an entry of either kind
FindUpSyncTryAnyKind(resp, t) ==
    IF resp.threw THEN "continue"
    ELSE IF resp.stats # "undefined"
            /\ (isFile(resp.stats) \/ isDirectory(resp.stats)) THEN "return"
    ELSE "continue"

\* the try/catch around statSync: stats may be undefined (stats?.isFile())
FindUpSyncTry(resp, t) ==
    IF resp.threw THEN "continue"
    ELSE IF (t = "file" /\ resp.stats # "undefined" /\ isFile(resp.stats))
            \/ (t = "directory" /\ resp.stats # "undefined"
                                /\ isDirectory(resp.stats)) THEN "return"
    ELSE "continue"

\* lines 115-133: the loop from a given directory on
RECURSIVE FindUpSyncLoop(_, _, _, _, _, _)
FindUpSyncLoop(dir, stop, r, n, t, log) ==
    IF FindUpSyncCond(dir, stop, r)
    THEN LET fp == FilePath(dir, n)
             o == FindUpSyncTry(StatSync(fp), t)
         IN IF o = "return" THEN [result |-> fp, probes |-> Append(log, dir)]
            ELSE IF o = "throw"
                 THEN [result |-> Thrown, probes |-> Append(log, dir)]
            ELSE FindUpSyncLoop(Dirname(dir), stop, r, n, t, Append(log, dir))
    ELSE [result |-> Undefined, probes |-> log]

\* the whole synchronous call
FindUpSync ==
    /\ syncPc = "idle"
    /\ LET dir == StartDirectory(cwd, processCwd)
           r == ParseRoot(dir)
           stop == ResolvedStopAt(dir, stopAt, r)
           out == FindUpSyncLoop(dir, stop, r, name, TypeOrDefault(type), <<>>)
       IN /\ syncResult' = out.result
          /\ syncProbes' = out.probes
    /\ syncPc' = "done"
    /\ UNCHANGED inputs /\ UNCHANGED asyncVars

----------------------------------------------------------------------------
(* Inputs *)

Prefix(k) == SubSeq(DeepPath, 1, k)

CwdOptions ==
    {Undefined, PathStr(FALSE, <<"..">>), FileURL(Prefix(1))}
    \cup {PathStr(TRUE, Prefix(k)) : k \in 0..MaxDepth}

StopOptions ==
    {Undefined, PathStr(FALSE, <<".">>), PathStr(FALSE, <<"..">>),
     FileURL(Prefix(1)), PathStr(TRUE, OffChain)}
    \cup {PathStr(TRUE, Prefix(k)) : k \in 2..MaxStop}

NameOptions ==
    {PathStr(FALSE, <<"b">>), PathStr(FALSE, <<"..", "b">>),
     PathStr(TRUE, <<"a", "b">>), PathStr(TRUE, <<"a", "..", "b">>)}

\* an omitted type is 'file' (line 62), so 'file' is covered by the default
TypeOptions == {"undefined", "directory"}

ProcessCwds == {<<"a", "b">>}

\* the start directory and its ancestors, root included
Ancestors(dir) == {SubSeq(dir, 1, k) : k \in 0..Len(dir)}

\* the paths either walk could stat
Candidates(start, n, pcwd) ==
    {Resolve(pcwd, FilePath(d, n)) : d \in Ancestors(start)}

InitWith(names, cwds, types, stops, kinds) ==
    /\ name \in names
    /\ cwd \in cwds
    /\ type \in types
    /\ stopAt \in stops
    /\ processCwd \in ProcessCwds
    /\ fs \in [Candidates(StartDirectory(cwd, processCwd), name, processCwd)
                -> kinds]
    /\ pc = "idle"
    /\ directory = <<>>
    /\ root = <<>>
    /\ resolvedStopAt = <<>>
    /\ filePath = Undefined
    /\ result = Undefined
    /\ probes = <<>>
    /\ syncPc = "idle"
    /\ syncResult = Undefined
    /\ syncProbes = <<>>

Init == InitWith(NameOptions, CwdOptions, TypeOptions, StopOptions, Kinds)

\* a smaller set of calls for the termination check
LiveNames == {PathStr(FALSE, <<"b">>), PathStr(TRUE, <<"a", "b">>)}
LiveCwds == {PathStr(TRUE, Prefix(k)) : k \in 0..MaxDepth}
LiveStops == {Undefined, PathStr(TRUE, Prefix(1)), PathStr(TRUE, OffChain)}
LiveKinds == {"file", "missing"}

LiveInit == InitWith(LiveNames, LiveCwds, {"undefined"}, LiveStops, LiveKinds)

Next ==
    \/ FindUpCall
    \/ FindUpIterate
    \/ FindUpExit
    \/ FindUpSync

Spec == Init /\ [][Next]_vars

\* each call, once made, runs on: the event loop resumes a settled await
FairSpec == LiveInit /\ [][Next]_vars /\ WF_vars(Next)

----------------------------------------------------------------------------
(* Vocabulary of the properties *)

Start == StartDirectory(cwd, processCwd)
Stop == ResolvedStopAt(Start, stopAt, <<>>)
EffType == TypeOrDefault(type)
BothDone == pc = "done" /\ syncPc = "done"

Parent(d) == IF d = <<>> THEN <<>> ELSE SubSeq(d, 1, Len(d) - 1)

\* the directory d holds an entry of the requested name and type
MatchAt(d) == KindAt(FilePath(d, name)) = EffType

\* the directories from the start up to the stop directory, both included
\* (up to the root when the stop directory is not an ancestor of the start)
UpToStop ==
    {d \in Ancestors(Start) :
        Stop \in Ancestors(Start) => Len(d) >= Len(Stop)}

\* the directories strictly below the stop directory and the root
BelowBoundary ==
    {d \in Ancestors(Start) :
        \A e \in Ancestors(Start) : Len(e) >= Len(d) => (e # Stop /\ e # <<>>)}

Dirs(log) == {log[i] : i \in 1..Len(log)}

\* after a probe of log[i] the walk went on to the parent, or ended there
\* because the parent is the boundary
WentOn(log, i) ==
    \/ i < Len(log) /\ log[i + 1] = Parent(log[i])
    \/ i = Len(log) /\ Parent(log[i]) \in {Stop, <<>>}

----------------------------------------------------------------------------
C1For(done, res) ==
    (done /\ ~IsAbsolute(name) /\ res.kind # "undefined") =>
        \E d \in Ancestors(Start) :
            /\ res = Join(d, name)
            /\ MatchAt(d)
            /\ \A e \in Ancestors(Start) : Len(e) > Len(d) => ~MatchAt(e)

(* C1: for a relative name, a returned path is the candidate of a directory
   on the parent chain of the start that holds a matching entry, and no
   directory nearer to the start holds one *)
C1_FirstMatch == C1For(pc = "done", result) /\ C1For(syncPc = "done", syncResult)

C1_Witness ==
    /\ BothDone
    /\ ~IsAbsolute(name)
    /\ Len(Start) = 3
    /\ ~MatchAt(Start) /\ ~MatchAt(Parent(Start))
    /\ MatchAt(Parent(Parent(Start)))
    /\ result = Join(Parent(Parent(Start)), name)
    /\ syncResult = result
    /\ Len(probes) = 3 /\ Len(syncProbes) = 3

C2For(done, res, log) ==
    (done /\ MatchAt(Start)) =>
        (res = FilePath(Start, name) /\ log = <<Start>>)

(* C2: if the start directory holds a matching entry, the result is its
   candidate path and only the start directory is probed *)
C2_StartMatchReturned ==
    C2For(pc = "done", result, probes) /\ C2For(syncPc = "done", syncResult, syncProbes)

C3For(done, log) ==
    done => Cardinality({i \in 1..Len(log) : log[i] = Start}) = 1

(* C3: a finished call has probed the start directory exactly once,
   whatever the boundary *)
C3_StartProbedOnce ==
    C3For(pc = "done", probes) /\ C3For(syncPc = "done", syncProbes)

C4For(done, res) ==
    (done /\ \A d \in UpToStop : ~MatchAt(d)) => res = Undefined

(* C4: if no directory from the start to the stop directory inclusive holds
   a matching entry, the finished call returns undefined and throws nothing *)
C4_AbsentWhenNoMatch ==
    C4For(pc = "done", result) /\ C4For(syncPc = "done", syncResult)

C4_Witness ==
    /\ BothDone
    /\ \A d \in UpToStop : ~MatchAt(d)
    /\ Len(probes) >= 2 /\ Len(syncProbes) >= 2
    /\ \E d \in Dirs(probes) : KindAt(FilePath(d, name)) \in {"file", "directory"}
    /\ result = Undefined /\ syncResult = Undefined

C5For(done, res, log) ==
    /\ \A d \in Dirs(log) : d # Stop /\ d # <<>>
    /\ (done /\ \A d \in BelowBoundary : ~MatchAt(d)) => res = Undefined

(* C5: the stop directory and the root are never probed, and a match that
   exists only at the boundary or above is not returned *)
C5_BoundaryExclusive ==
    C5For(pc = "done", result, probes) /\ C5For(syncPc = "done", syncResult, syncProbes)

C5_Witness ==
    /\ BothDone
    /\ Stop \in Ancestors(Start) /\ Stop # Start /\ Stop # <<>>
    /\ \E d \in Ancestors(Stop) : MatchAt(d)
    /\ ~IsAbsolute(name)
    /\ probes # <<>> /\ syncProbes # <<>>
    /\ result = Undefined /\ syncResult = Undefined

(* C6: on the same arguments and file system, findUp and findUpSync end with
   the same result *)
C6_SyncAsyncAgree == BothDone => result = syncResult

C6_Witness ==
    /\ BothDone
    /\ result.kind = "path" /\ syncResult.kind = "path"
    /\ \E d \in Dirs(probes) : KindAt(FilePath(d, name)) = "missing"
    /\ \E d \in Dirs(probes) : KindAt(FilePath(d, name)) = "error"

OtherKind(d) ==
    KindAt(FilePath(d, name)) \in ({"file", "directory"} \ {EffType})

C7For(done, res, log) ==
    /\ res.kind = "path" =>
          (EffType \in {"file", "directory"} /\ KindAt(res) = EffType)
    /\ done => \A i \in 1..Len(log) : OtherKind(log[i]) => WentOn(log, i)

(* C7: a returned path names an entry of the requested type, and a probed
   entry of the other kind is skipped: the walk goes on to the parent *)
C7_TypeStrict ==
    C7For(pc = "done", result, probes) /\ C7For(syncPc = "done", syncResult, syncProbes)

C7_Witness ==
    /\ BothDone
    /\ result.kind = "path" /\ syncResult = result
    /\ OtherKind(Start)
    /\ Len(probes) >= 2 /\ Len(syncProbes) >= 2

Failed(d) == KindAt(FilePath(d, name)) \in {"missing", "error"}

C8For(done, res, log) ==
    /\ res # Thrown
    /\ done => \A i \in 1..Len(log) : Failed(log[i]) => WentOn(log, i)
    /\ (done /\ \E d \in Dirs(log) : Failed(d)) =>
          \A d \in BelowBoundary :
              (MatchAt(d) /\ \A e \in BelowBoundary : Len(e) > Len(d) => ~MatchAt(e))
                  => res = FilePath(d, name)

(* C8: a failed probe is never thrown to the caller; the walk goes on to the
   parent, and the nearest match below the boundary is still returned *)
C8_ProbeFailureSwallowed ==
    C8For(pc = "done", result, probes) /\ C8For(syncPc = "done", syncResult, syncProbes)

C8_Witness ==
    /\ BothDone
    /\ KindAt(FilePath(Start, name)) = "error"
    /\ Len(Start) >= 3
    /\ KindAt(FilePath(Parent(Start), name)) = "missing"
    /\ MatchAt(Parent(Parent(Start)))
    /\ result = FilePath(Parent(Parent(Start)), name)
    /\ syncResult = result

C9For(done, res, log) ==
    (done /\ IsAbsolute(name) /\ KindAt(name) = EffType) =>
        (res = name /\ Len(log) = 1)

(* C9: an absolute name that exists with the requested type is returned as
   it is, on the first iteration, whatever cwd and stopAt are *)
C9_AbsoluteNameReturned ==
    C9For(pc = "done", result, probes) /\ C9For(syncPc = "done", syncResult, syncProbes)

C10For(log) ==
    /\ Len(log) <= Len(Start)
    /\ \A i \in 1..Len(log) :
          log[i] \in Ancestors(Start) /\ Len(log[i]) = Len(Start) - (i - 1)

C10_Inv ==
    /\ C10For(probes) /\ C10For(syncProbes)
    /\ pc # "idle" => directory \in Ancestors(Start)
    /\ (pc = "done" /\ result = Undefined /\ Stop \notin Ancestors(Start))
          => directory = <<>>

(* C10: every call terminates; the current directory is the start directory
   or an ancestor, each iteration probes a directory one level higher than
   the one before, there are at most depth(start) probes, and with a stop
   directory off the parent chain a walk that finds nothing ends at the root *)
C10_Terminates == [](C10_Inv) /\ <>(BothDone)

C10_Witness ==
    /\ BothDone
    /\ Stop \notin Ancestors(Start)
    /\ Len(Start) >= 3
    /\ Len(probes) = Len(Start) /\ Len(syncProbes) = Len(Start)
    /\ result = Undefined /\ syncResult = Undefined
====
